---------------------------- MODULE Spec2Model ----------------------------
(***************************************************************************)
(* A model of src/app/components/SquashAnalysis.tsx: the WorkoutAnalysis   *)
(* component's state (data, squashStats, hikingStats), the asynchronous    *)
(* fetchData effect that loads /workouts.csv, and the pure helper          *)
(* formatDuration.                                                         *)
(*                                                                         *)
(* JavaScript values are modelled by tagged records so that number, NaN    *)
(* and null stay distinct; strings whose characters matter (the Duration   *)
(* cell, the formatted total duration) are sequences of one-character      *)
(* strings.                                                                *)
(***************************************************************************)
EXTENDS Integers, Sequences, FiniteSets, TLC

(***************************************************************************)
(* Bounds of the model.                                                    *)
(***************************************************************************)
\* rows of parseResult.data in one load
MaxRows == 2
\* runs of the effect body (fetchData) for one component instance
MaxLoads == 2
\* largest H of the "H:MM" strings enumerated for the duration round trip
MaxHours == 2

(***************************************************************************)
(* JavaScript values.                                                      *)
(***************************************************************************)
Num(n) == [t |-> "number", n |-> n]
NaN == [t |-> "NaN", n |-> 0]
Null == [t |-> "null", n |-> 0]
IsNum(v) == v.t = "number"

\* ToNumber of a number, NaN, null or undefined
ToNumber(v) ==
  CASE v.t = "number" -> v
    [] v.t = "null" -> Num(0)
    [] OTHER -> NaN

\* a + b on values that are numbers, NaN, null or undefined
Plus(a, b) ==
  LET x == ToNumber(a)
      y == ToNumber(b)
  IN IF IsNum(x) /\ IsNum(y) THEN Num(x.n + y.n) ELSE NaN

\* a - b
Minus(a, b) ==
  LET x == ToNumber(a)
      y == ToNumber(b)
  IN IF IsNum(x) /\ IsNum(y) THEN Num(x.n - y.n) ELSE NaN

\* a * b
Times(a, b) ==
  LET x == ToNumber(a)
      y == ToNumber(b)
  IN IF IsNum(x) /\ IsNum(y) THEN Num(x.n * y.n) ELSE NaN

\* v || 0 : a falsy v (null, undefined, NaN, 0) gives 0
OrZero(v) == IF IsNum(v) /\ v.n # 0 THEN v ELSE Num(0)

(***************************************************************************)
(* Strings as sequences of characters.                                     *)
(***************************************************************************)
Digits == <<"0", "1", "2", "3", "4", "5", "6", "7", "8", "9">>
Base == 10

IsDigit(c) == \E i \in 1..Base : Digits[i] = c
DigitValue(c) == (CHOOSE i \in 1..Base : Digits[i] = c) - 1

RECURSIVE NatToChars(_)
\* the decimal digits of a non-negative integer
NatToChars(n) ==
  IF n < Base THEN <<Digits[n + 1]>>
  ELSE NatToChars(n \div Base) \o <<Digits[(n % Base) + 1]>>

\* `${v}` of a number or NaN
ToChars(v) ==
  IF IsNum(v)
  THEN IF v.n < 0 THEN <<"-">> \o NatToChars(-v.n) ELSE NatToChars(v.n)
  ELSE <<"N", "a", "N">>

RECURSIVE Split(_, _)
\* s.split(sep) for a one-character separator: the list of the parts
Split(s, sep) ==
  IF \A i \in 1..Len(s) : s[i] # sep THEN <<s>>
  ELSE LET k == CHOOSE i \in 1..Len(s) :
                  s[i] = sep /\ \A j \in 1..(i - 1) : s[j] # sep
       IN <<SubSeq(s, 1, k - 1)>> \o Split(SubSeq(s, k + 1, Len(s)), sep)

\* parts[i] of a JavaScript array (1-based here): undefined past the end
At(parts, i) == IF i \in 1..Len(parts) THEN [t |-> "string", s |-> parts[i]]
                ELSE [t |-> "undefined", s |-> <<>>]

RECURSIVE DigitsValue(_, _)
\* the value of the longest prefix of digits of s, acc being the value so far
DigitsValue(s, acc) ==
  IF s = <<>> \/ ~IsDigit(Head(s)) THEN acc
  ELSE DigitsValue(Tail(s), acc * Base + DigitValue(Head(s)))

RECURSIVE TrimLeft(_)
TrimLeft(s) == IF s # <<>> /\ Head(s) = " " THEN TrimLeft(Tail(s)) ELSE s

\* parseInt(x): leading blanks, an optional sign, then the longest prefix of
\* digits; NaN when there is no digit there (or x is undefined)
ParseInt(x) ==
  IF x.t # "string" THEN NaN
  ELSE LET s == TrimLeft(x.s)
           neg == s # <<>> /\ Head(s) = "-"
           body == IF s # <<>> /\ Head(s) \in {"-", "+"} THEN Tail(s) ELSE s
       IN IF body = <<>> \/ ~IsDigit(Head(body)) THEN NaN
          ELSE Num((IF neg THEN -1 ELSE 1) * DigitsValue(body, 0))

(***************************************************************************)
(* formatDuration                                                          *)
(***************************************************************************)
MinutesPerHour == 60

\* Math.floor(minutes / 60)
FloorHours(minutes) ==
  IF IsNum(minutes) THEN Num(minutes.n \div MinutesPerHour) ELSE NaN

\* minutes % 60 (the operand is never negative here)
RemMinutes(minutes) ==
  IF IsNum(minutes) THEN Num(minutes.n % MinutesPerHour) ELSE NaN

formatDuration(minutes) ==
  LET hours == FloorHours(minutes)
      mins == RemMinutes(minutes)
  IN ToChars(hours) \o <<"h", " ">> \o ToChars(mins) \o <<"m">>

\* the minutes without the hours
DurationMinutes_NoHours(text) == ParseInt(At(Split(text, ":"), 2))

\* lines 73-74: the minutes of a Duration cell that is a string
DurationMinutes(text) ==
  LET durationParts == Split(text, ":")
  IN Plus(Times(ParseInt(At(durationParts, 1)), Num(MinutesPerHour)),
          ParseInt(At(durationParts, 2)))


(***************************************************************************)
(* Rows of parseResult.data (Papa.parse with header and dynamicTyping):    *)
(* the cells the effect reads.  A Start cell is the instant it denotes     *)
(* (or no instant at all), a Duration cell is a string or, when the text   *)
(* of the cell is numeric or empty, a number or null; the numeric cells    *)
(* are a number or, when empty, null.                                      *)
(***************************************************************************)
StartOn(y, m, d) == [valid |-> TRUE, y |-> y, m |-> m, d |-> d]
StartInvalid == [valid |-> FALSE, y |-> 0, m |-> 0, d |-> 0]

Str(chars) == [isString |-> TRUE, text |-> chars]
\* a Duration cell that dynamicTyping turned into a number or into null
NotAString == [isString |-> FALSE, text |-> <<>>]

Row(type, start, duration, calories, avgHr, maxHr) ==
  [type |-> type, start |-> start, duration |-> duration,
   calories |-> calories, avgHr |-> avgHr, maxHr |-> maxHr]

\* the rows a load draws its batch from
Rows ==
  { Row("Squash", StartOn(2024, 3, 3), Str(<<"1", ":", "0", "5">>), Num(300), Num(140), Num(150)),
    Row("Squash", StartOn(2024, 3, 1), Str(<<"0", ":", "4", "5">>), Num(200), Num(140), Num(170)),
    Row("Squash", StartOn(2023, 12, 31), Str(<<"0", ":", "4", "5">>), Null, Null, Null),
    Row("Squash", StartOn(2024, 3, 2), Str(<<"a", "b", "c">>), Num(300), Num(140), Num(150)),
    Row("Hiking", StartOn(2024, 3, 3), Str(<<"2", ":", "3", "0">>), Num(201), Num(140), Null),
    Row("Hiking", StartOn(2024, 3, 2), Str(<<"1", ":", "0", "5">>), Num(300), Null, Num(170)),
    Row("Hiking", StartOn(2024, 3, 1), NotAString, Num(200), Num(140), Num(150)),
    Row("Hiking", StartInvalid, Str(<<"0", ":", "4", "5">>), Num(200), Num(140), Num(150)),
    Row("Running", StartOn(2024, 3, 2), Str(<<"0", ":", "4", "5">>), Num(300), Num(140), Num(170)) }

\* the batches of at most MaxRows rows
Batches == UNION { [1..n -> Rows] : n \in 0..MaxRows }

(***************************************************************************)
(* The date label and the sort key.                                        *)
(***************************************************************************)
\* new Date(row['Start']).toLocaleDateString('en-US', {month: 'short', day:
\* 'numeric'}): month and day only ("Mar 3"), or "Invalid Date"
DateLabel(start) ==
  IF start.valid THEN [valid |-> TRUE, m |-> start.m, d |-> start.d]
  ELSE [valid |-> FALSE, m |-> 0, d |-> 0]

\* days of the months before month m in the year a label is parsed in
DaysBefore == <<0, 31, 59, 90, 120, 151, 181, 212, 243, 273, 304, 334>>

\* new Date(label).getTime(), in days: a label has no year, and the engine
\* (V8) parses it in the year 2001; NaN for "Invalid Date"
LabelTime(label) ==
  IF label.valid THEN Num(DaysBefore[label.m] + label.d) ELSE NaN

\* the comparator of line 85
CompareDate(a, b) == Minus(LabelTime(a.date), LabelTime(b.date))

\* the same comparator on a record kept beside the Start cell it was made
\* from (see Mapped)
CompareMapped(a, b) == CompareDate(a.rec, b.rec)

\* how sort reads a comparator's result: NaN counts as 0
Sign(v) == IF ~IsNum(v) \/ v.n = 0 THEN 0 ELSE IF v.n < 0 THEN -1 ELSE 1

(***************************************************************************)
(* Array helpers.                                                          *)
(***************************************************************************)
\* list.filter(callback), keep[i] being what the callback gives for list[i]
Filter(list, keep) ==
  LET kept[i \in 0..Len(list)] ==
        IF i = 0 THEN <<>>
        ELSE IF keep[i] THEN Append(kept[i - 1], list[i]) ELSE kept[i - 1]
  IN kept[Len(list)]

\* list.reduce((acc, row) => acc + row.field, initial), addends[i] being
\* the field of list[i]
Reduce(addends, initial) ==
  LET acc[i \in 0..Len(addends)] ==
        IF i = 0 THEN initial ELSE Plus(acc[i - 1], addends[i])
  IN acc[Len(addends)]

\* all orders of the elements of list
Orders(list) ==
  { [i \in 1..Len(list) |-> list[p[i]]] :
      p \in { q \in [1..Len(list) -> 1..Len(list)] :
                \A i, j \in 1..Len(list) : i # j => q[i] # q[j] } }

\* x inserted into the sorted list before the first element that the
\* comparator puts after it
InsertSorted(sorted, x) ==
  LET after == { i \in 1..Len(sorted) : Sign(CompareMapped(sorted[i], x)) > 0 }
      k == IF after = {} THEN Len(sorted) + 1
           ELSE CHOOSE i \in after : \A j \in after : i <= j
  IN SubSeq(sorted, 1, k - 1) \o <<x>> \o SubSeq(sorted, k, Len(sorted))

\* the stable ascending order of list under a consistent comparator
StableSort(list) ==
  LET sorted[i \in 0..Len(list)] ==
        IF i = 0 THEN <<>> ELSE InsertSorted(sorted[i - 1], list[i])
  IN sorted[Len(list)]

\* whether the comparator is a consistent one for the elements of list
Consistent(list) ==
  \A i, j, k \in 1..Len(list) :
    LET ij == Sign(CompareMapped(list[i], list[j]))
        jk == Sign(CompareMapped(list[j], list[k]))
        ik == Sign(CompareMapped(list[i], list[k]))
    IN /\ (ij = 0 /\ jk = 0) => ik = 0
       /\ (ij < 0 /\ jk < 0) => ik < 0
       /\ (ij > 0 /\ jk > 0) => ik > 0

\* the results list.sort(comparator) may give: the stable ascending order
\* when the comparator is consistent, and otherwise an order the engine chooses
SortOutcomes(list) ==
  IF Consistent(list) THEN {StableSort(list)} ELSE Orders(list)

(***************************************************************************)
(* Lines 70-85: from parseResult.data to processedData.                    *)
(***************************************************************************)
\* a filter that keeps every row
IsConfigured_KeepsAll(row) == row.type = row.type

\* the filter of line 71
IsConfigured(row) == row.type = "Squash" \/ row.type = "Hiking"

\* line 73 throws a TypeError when the Duration cell has no split method
RowThrows(row) == ~row.duration.isString

\* the record of lines 75-83
MapRow(row) ==
  [date |-> DateLabel(row.start),
   duration |-> row.duration,
   durationMinutes |-> DurationMinutes(row.duration.text),
   calories |-> row.calories,
   avgHeartRate |-> row.avgHr,
   maxHeartRate |-> row.maxHr,
   workoutType |-> row.type]

Filtered(rows) == Filter(rows, [i \in 1..Len(rows) |-> IsConfigured(rows[i])])

\* whether lines 70-85 throw for this batch
ProcessThrows(rows) ==
  \E i \in 1..Len(Filtered(rows)) : RowThrows(Filtered(rows)[i])

\* the records of the map of line 72, each beside the Start cell it was made
\* from (history: the code keeps no such cell, and only properties read it)
Mapped(rows) ==
  [i \in 1..Len(Filtered(rows)) |->
     [rec |-> MapRow(Filtered(rows)[i]), start |-> Filtered(rows)[i].start]]

\* the orders the sort of line 85 may give
Sorted(rows) == SortOutcomes(Mapped(rows))

\* the ways lines 64-85 may end for this batch: a TypeError, or a processedData
\* (with its history: the Start cells of its records, the rows of the batch)
Run(rows) ==
  IF ProcessThrows(rows)
  THEN {[threw |-> TRUE, processedData |-> <<>>, starts |-> <<>>, rows |-> Len(rows)]}
  ELSE {[threw |-> FALSE,
         processedData |-> [i \in 1..Len(order) |-> order[i].rec],
         starts |-> [i \in 1..Len(order) |-> order[i].start],
         rows |-> Len(rows)] : order \in Sorted(rows)}

\* the ways they may end for the batches of at most MaxRows rows
Runs == UNION {Run(rows) : rows \in Batches}

(***************************************************************************)
(* Lines 89-109: the statistics of one category.                           *)
(***************************************************************************)
\* the records of one workout type (lines 89 and 100, and the charts)
OfType(list, type) ==
  Filter(list, [i \in 1..Len(list) |-> list[i].workoutType = type])

\* Math.round(sum / count) for count > 0: the nearest integer, halves upward
RoundDiv(sum, count) ==
  IF IsNum(sum) THEN Num((2 * sum.n + count) \div (2 * count)) ELSE NaN

\* the last value instead of the largest
MathMax_Last(values) == values[Len(values)]

RECURSIVE MathMax(_)
\* Math.max(...values) of a non-empty list of numbers
MathMax(values) ==
  IF Len(values) = 1 THEN values[1]
  ELSE LET rest == MathMax(Tail(values))
       IN IF values[1].n >= rest.n THEN values[1] ELSE rest

\* the object of lines 92-97 (and 103-108)
StatsOf(catData) ==
  LET totalMinutes == Reduce([i \in 1..Len(catData) |-> catData[i].durationMinutes], Num(0))
  IN [totalSessions |-> Len(catData),
      totalDuration |-> formatDuration(totalMinutes),
      avgCalories |-> RoundDiv(Reduce([i \in 1..Len(catData) |-> catData[i].calories], Num(0)),
                               Len(catData)),
      maxHeartRate |-> MathMax([i \in 1..Len(catData) |-> OrZero(catData[i].maxHeartRate)])]

\* the initial value of squashStats and of hikingStats
ZeroStats ==
  [totalSessions |-> 0,
   totalDuration |-> <<"0", "h", " ", "0", "m">>,
   avgCalories |-> Num(0),
   maxHeartRate |-> Num(0)]

(***************************************************************************)
(* The component.                                                          *)
(***************************************************************************)
VARIABLES
  data,         \* useState([])
  squashStats,  \* useState({...})
  hikingStats,  \* useState({...})
  started,      \* runs of the effect body so far
  inFetch,      \* runs of fetchData suspended at await fetch(...)
  inText,       \* runs of fetchData suspended at await response.text()
  errors,       \* calls of console.error('Error loading data:', ...) so far
  lastError,    \* what the last such call reported
  origin,       \* history: what data was made from (see Run)
  dur           \* the duration round trip: a Duration text, parsed, formatted

vars == <<data, squashStats, hikingStats, started, inFetch, inText, errors,
          lastError, origin, dur>>

published == <<data, squashStats, hikingStats>>

\* no duration round trip in progress
DurIdle == [pc |-> "idle", h |-> 0, mm |-> 0, text |-> <<>>, minutes |-> Num(0), out |-> <<>>]

Init ==
  /\ data = <<>>
  /\ squashStats = ZeroStats
  /\ hikingStats = ZeroStats
  /\ started = 0
  /\ inFetch = 0
  /\ inText = 0
  /\ errors = 0
  /\ lastError = "none"
  /\ origin = [starts |-> <<>>, rows |-> 0]
  /\ dur = DurIdle

\* lines 115 and 60: the effect calls fetchData, which suspends at the fetch.
\* React runs a mount effect again for the same instance, state kept, under
\* StrictMode and on a fast refresh, so the body may run more than once.
StartLoad ==
  /\ started < MaxLoads
  /\ started' = started + 1
  /\ inFetch' = inFetch + 1
  /\ UNCHANGED <<data, squashStats, hikingStats, inText, errors, lastError, origin, dur>>

\* a catch that also empties the record series
Catch_ClearsData(what) ==
  /\ errors' = errors + 1
  /\ lastError' = what
  /\ data' = <<>>
  /\ UNCHANGED <<squashStats, hikingStats, started, origin, dur>>

\* the catch of lines 110-112
Catch(what) ==
  /\ errors' = errors + 1
  /\ lastError' = what
  /\ UNCHANGED <<data, squashStats, hikingStats, started, origin, dur>>

\* line 60: the fetch rejects
FetchRejects ==
  /\ inFetch > 0
  /\ inFetch' = inFetch - 1
  /\ Catch("fetch rejected")
  /\ UNCHANGED inText

\* line 61: the response is not ok
ResponseNotOk ==
  /\ inFetch > 0
  /\ inFetch' = inFetch - 1
  /\ Catch("HTTP error")
  /\ UNCHANGED inText

\* lines 60-63: the response is ok, and the run suspends at response.text()
ResponseOk ==
  /\ inFetch > 0
  /\ inFetch' = inFetch - 1
  /\ inText' = inText + 1
  /\ UNCHANGED <<data, squashStats, hikingStats, started, errors, lastError, origin, dur>>

\* line 63: response.text() rejects
TextRejects ==
  /\ inText > 0
  /\ inText' = inText - 1
  /\ Catch("text rejected")
  /\ UNCHANGED inFetch

\* lines 89-98 and 100-109: a category's stats are set when it has records
NextStats(catData, old) ==
  IF Len(catData) > 0 THEN StatsOf(catData) ELSE old

\* lines 87-109: the three state updates, which React commits together
Publish(processedData) ==
  /\ data' = processedData
  /\ squashStats' = NextStats(OfType(processedData, "Squash"), squashStats)
  /\ hikingStats' = NextStats(OfType(processedData, "Hiking"), hikingStats)
  /\ UNCHANGED <<started, errors, lastError, dur>>

\* lines 63-112: the text arrives and the rest of fetchData runs to its end
TextArrives ==
  /\ inText > 0
  /\ inText' = inText - 1
  /\ UNCHANGED inFetch
  /\ \E run \in Runs :
       IF run.threw THEN Catch("TypeError")
       ELSE /\ Publish(run.processedData)
            /\ origin' = [starts |-> run.starts, rows |-> run.rows]

Next ==
  \/ StartLoad
  \/ FetchRejects
  \/ ResponseNotOk
  \/ ResponseOk
  \/ TextRejects
  \/ TextArrives

Spec == Init /\ [][Next]_vars

\* a chart that is given every record
SquashSeries_Unfiltered == data

\* the chart series of lines 162 and 212
SquashSeries == OfType(data, "Squash")
HikingSeries == OfType(data, "Hiking")

(***************************************************************************)
(* The duration round trip: the parse of lines 73-74 and formatDuration    *)
(* applied to every "H:MM" with H <= MaxHours and MM < 60.                 *)
(***************************************************************************)
\* the text "H:MM"
DurationText(h, mm) ==
  NatToChars(h) \o <<":">> \o <<Digits[(mm \div Base) + 1], Digits[(mm % Base) + 1]>>

DurInit ==
  /\ data = <<>>
  /\ squashStats = ZeroStats
  /\ hikingStats = ZeroStats
  /\ started = 0
  /\ inFetch = 0
  /\ inText = 0
  /\ errors = 0
  /\ lastError = "none"
  /\ origin = [starts |-> <<>>, rows |-> 0]
  /\ \E h \in 0..MaxHours, mm \in 0..(MinutesPerHour - 1) :
       dur = [pc |-> "text", h |-> h, mm |-> mm, text |-> DurationText(h, mm),
              minutes |-> Num(0), out |-> <<>>]

\* lines 73-74 applied to the text
DurParse ==
  /\ dur.pc = "text"
  /\ dur' = [dur EXCEPT !.pc = "parsed", !.minutes = DurationMinutes(dur.text)]
  /\ UNCHANGED <<data, squashStats, hikingStats, started, inFetch, inText, errors,
                 lastError, origin>>

\* formatDuration applied to the parsed minutes
DurFormat ==
  /\ dur.pc = "parsed"
  /\ dur' = [dur EXCEPT !.pc = "formatted", !.out = formatDuration(dur.minutes)]
  /\ UNCHANGED <<data, squashStats, hikingStats, started, inFetch, inText, errors,
                 lastError, origin>>

DurNext ==
  \/ DurParse
  \/ DurFormat

DurSpec == DurInit /\ [][DurNext]_vars

(***************************************************************************)
(* Reference notions the properties are stated with.                       *)
(***************************************************************************)
\* the positions of data that hold a record of this workout type
Positions(type) == { i \in 1..Len(data) : data[i].workoutType = type }

RECURSIVE SumOver(_, _)
\* the sum of f over the set S of positions, f[i] being a number
SumOver(S, f) ==
  IF S = {} THEN 0
  ELSE LET i == CHOOSE x \in S : TRUE IN f[i] + SumOver(S \ {i}, f)

RECURSIVE InOrder(_)
\* the records of data at the positions S, in ascending order of position
InOrder(S) ==
  IF S = {} THEN <<>>
  ELSE LET i == CHOOSE x \in S : \A y \in S : x <= y
       IN <<data[i]>> \o InOrder(S \ {i})

\* a start date before another: by year, then month, then day
StartBefore(a, b) ==
  \/ a.y < b.y
  \/ a.y = b.y /\ a.m < b.m
  \/ a.y = b.y /\ a.m = b.m /\ a.d < b.d

\* the stats of a category, by name
StatsFor(type) == IF type = "Squash" THEN squashStats ELSE hikingStats

Categories == {"Squash", "Hiking"}

\* the calories of the record at position i, 0 when absent
CaloriesAt == [i \in 1..Len(data) |-> IF IsNum(data[i].calories) THEN data[i].calories.n ELSE 0]

\* the positions of this type whose record has calories
WithCalories(type) == { i \in Positions(type) : IsNum(data[i].calories) }

(***************************************************************************)
(* C1.  A row of a configured category whose duration or date cannot be    *)
(* parsed is left out of the published records, and it never makes the     *)
(* load end in the catch: every published record has a parsed duration     *)
(* and a parsed date, and no load was ended by a row's TypeError.          *)
(***************************************************************************)
C1_MalformedRowSkipped ==
  /\ \A i \in 1..Len(data) : IsNum(data[i].durationMinutes) /\ data[i].date.valid
  /\ lastError # "TypeError"

(***************************************************************************)
(* C2.  The three published values are replaced all together: a step that  *)
(* changes any of them leaves the record series and the stats of both      *)
(* categories those of one and the same result set (the stats of a         *)
(* category without records being the zero state).                         *)
(***************************************************************************)
ResultSetOf(series, stats) ==
  /\ stats.squash = (IF OfType(series, "Squash") = <<>> THEN ZeroStats
                     ELSE StatsOf(OfType(series, "Squash")))
  /\ stats.hiking = (IF OfType(series, "Hiking") = <<>> THEN ZeroStats
                     ELSE StatsOf(OfType(series, "Hiking")))

C2_ReplacedAllOrNothing ==
  [][published' # published =>
       ResultSetOf(data', [squash |-> squashStats', hiking |-> hikingStats'])]_vars

(***************************************************************************)
(* C3.  A load that fails (the fetch rejects, the response is not ok, the  *)
(* text cannot be read) ends in the catch and leaves data, squashStats and *)
(* hikingStats as they were; while every finished load has ended in the    *)
(* catch they are the empty series and the zero-state stats.               *)
(***************************************************************************)
LoadFailures == {"fetch rejected", "HTTP error", "text rejected"}

C3_FailedLoadKeepsState ==
  /\ [](errors = started - inFetch - inText =>
          data = <<>> /\ squashStats = ZeroStats /\ hikingStats = ZeroStats)
  /\ [][(errors' = errors + 1 /\ lastError' \in LoadFailures) =>
          published' = published]_vars

\* every load has ended, one in a failure, and records are published
C3_Witness ==
  /\ lastError \in LoadFailures
  /\ data # <<>>
  /\ started = MaxLoads /\ inFetch = 0 /\ inText = 0

(***************************************************************************)
(* C4.  The published records are in ascending order of the actual start   *)
(* date (year, month, day) of the rows they were made from.                *)
(***************************************************************************)
C4_AscendingByStartDate ==
  \A i, j \in 1..Len(data) :
    (i < j /\ origin.starts[i].valid /\ origin.starts[j].valid) =>
      ~StartBefore(origin.starts[j], origin.starts[i])

(***************************************************************************)
(* C5.  For a category with records, some of them with calories,           *)
(* avgCalories is the rounded quotient of the sum of the calories that are *)
(* present by the number of records that have them, and totalSessions      *)
(* still counts every record.                                              *)
(***************************************************************************)
C5_AverageOverPresent ==
  \A type \in Categories :
    WithCalories(type) # {} =>
      /\ StatsFor(type).avgCalories =
           RoundDiv(Num(SumOver(WithCalories(type), CaloriesAt)),
                    Cardinality(WithCalories(type)))
      /\ StatsFor(type).totalSessions = Cardinality(Positions(type))

(***************************************************************************)
(* C6.  A category with no published record has the zero-state stats.     *)
(***************************************************************************)
C6_EmptyCategoryZeroState ==
  \A type \in Categories : Positions(type) = {} => StatsFor(type) = ZeroStats

(***************************************************************************)
(* C7.  No row of another workout type than Squash and Hiking is           *)
(* published: every record of data and of the two chart series is a Squash *)
(* or a Hiking record, data has no more records than the batch had rows,   *)
(* and the sessions a category with records reports, with the records of   *)
(* the other category, are all the records of data.                        *)
(***************************************************************************)
C7_NoUnconfiguredRows ==
  /\ \A i \in 1..Len(data) : data[i].workoutType \in Categories
  /\ \A i \in 1..Len(SquashSeries) : SquashSeries[i].workoutType = "Squash"
  /\ \A i \in 1..Len(HikingSeries) : HikingSeries[i].workoutType = "Hiking"
  /\ Len(data) <= origin.rows
  /\ \A type \in Categories :
       Positions(type) # {} =>
         \A other \in Categories \ {type} :
           StatsFor(type).totalSessions + Cardinality(Positions(other)) = Len(data)

\* records were published from a batch that had a row more than them
C7_Witness == data # <<>> /\ Len(data) < origin.rows

(***************************************************************************)
(* C8.  The minutes parsed from "H:MM" are H*60 + MM, and formatDuration   *)
(* of them is "Hh Mm" with the same H and MM, H*60 + M the minutes and     *)
(* 0 <= M < 60.                                                            *)
(***************************************************************************)
C8_DurationRoundTrip ==
  /\ dur.pc \in {"parsed", "formatted"} =>
       dur.minutes = Num(dur.h * MinutesPerHour + dur.mm)
  /\ dur.pc = "formatted" =>
       LET parts == Split(dur.out, " ")
           H == ParseInt(At(parts, 1))
           M == ParseInt(At(parts, 2))
       IN /\ Len(parts) = 2
          /\ IsNum(H) /\ IsNum(M)
          /\ parts[1] = NatToChars(H.n) \o <<"h">>
          /\ parts[2] = NatToChars(M.n) \o <<"m">>
          /\ H.n * MinutesPerHour + M.n = dur.minutes.n
          /\ 0 <= M.n /\ M.n < MinutesPerHour
          /\ H.n = dur.h /\ M.n = dur.mm

\* "1:05" has been parsed and formatted
C8_Witness == dur.pc = "formatted" /\ dur.h = 1 /\ dur.mm = 5

(***************************************************************************)
(* C9.  The stats of a category with records are the aggregates of its     *)
(* records: their number, their summed minutes formatted, and the largest  *)
(* maxHeartRate with an absent one counted as 0.  The Squash rows (1:05,   *)
(* 300 kcal, 150 bpm) and (0:45, 200 kcal, 170 bpm) give 2 sessions,       *)
(* "1h 50m", an average of 250 and a maximum of 170.                       *)
(***************************************************************************)
\* the summed minutes of the records of this type: NaN when one is NaN
TotalMinutes(type) ==
  IF \A i \in Positions(type) : IsNum(data[i].durationMinutes)
  THEN Num(SumOver(Positions(type), [i \in 1..Len(data) |-> data[i].durationMinutes.n]))
  ELSE NaN

\* the heart rates of the records of this type, an absent one as 0
HeartRates(type) ==
  { IF IsNum(data[i].maxHeartRate) THEN data[i].maxHeartRate.n ELSE 0 : i \in Positions(type) }

\* the two Squash rows of the example are the Squash records
ExampleSquash ==
  /\ Len(SquashSeries) = 2
  /\ {SquashSeries[i].duration.text : i \in 1..2} = {<<"1", ":", "0", "5">>, <<"0", ":", "4", "5">>}
  /\ {SquashSeries[i].calories : i \in 1..2} = {Num(300), Num(200)}
  /\ {SquashSeries[i].maxHeartRate : i \in 1..2} = {Num(150), Num(170)}

C9_StatsAreAggregates ==
  /\ \A type \in Categories :
       Positions(type) # {} =>
         /\ StatsFor(type).totalSessions = Cardinality(Positions(type))
         /\ StatsFor(type).totalDuration = formatDuration(TotalMinutes(type))
         /\ StatsFor(type).maxHeartRate.t = "number"
         /\ StatsFor(type).maxHeartRate.n \in HeartRates(type)
         /\ \A r \in HeartRates(type) : r <= StatsFor(type).maxHeartRate.n
  /\ ExampleSquash =>
       squashStats = [totalSessions |-> 2,
                      totalDuration |-> <<"1", "h", " ", "5", "0", "m">>,
                      avgCalories |-> Num(250),
                      maxHeartRate |-> Num(170)]

\* the two Squash rows of the example have been published
C9_Witness == ExampleSquash

(***************************************************************************)
(* C10.  The two chart series are the Squash records and the Hiking        *)
(* records of data in the order data has them, and each record of data is  *)
(* in exactly one of the two.                                              *)
(***************************************************************************)
C10_SeriesPartitionData ==
  /\ SquashSeries = InOrder(Positions("Squash"))
  /\ HikingSeries = InOrder(Positions("Hiking"))
  /\ Positions("Squash") \cup Positions("Hiking") = 1..Len(data)
  /\ Positions("Squash") \cap Positions("Hiking") = {}
  /\ Len(SquashSeries) + Len(HikingSeries) = Len(data)

\* two different records of one category are published
C10_Witness ==
  \/ Len(SquashSeries) = 2 /\ SquashSeries[1] # SquashSeries[2]
  \/ Len(HikingSeries) = 2 /\ HikingSeries[1] # HikingSeries[2]

=============================================================================
